---- MODULE Spec2Model ----
(***************************************************************************)
(* Model of tux/cogs/services/starboard.py: the three reaction listeners   *)
(* of the Starboard cog, create_or_update_starboard_message and            *)
(* get_existing_starboard_message, for one guild and one original message. *)
(*                                                                         *)
(* Every listener is a coroutine.  One action of the model is one awaited  *)
(* external call together with the synchronous code that follows it up to *)
(* the next await; between two such steps the other coroutines and the     *)
(* outside world (users, admins, moderators) may act.                      *)
(***************************************************************************)
EXTENDS Integers, FiniteSets, Sequences, TLC

\* ------------------------------------------------------------------ bounds
NumUsers == 2          \* users other than the message author: 1..NumUsers
MaxMsgs == 2           \* messages ever sent to the starboard channels

Author == 0
Users == 0..NumUsers
Thresholds == 1..NumUsers          \* thresholds admins configure
NoUser == 0 - 1
Emojis == {"star", "other"}
SetupEmojis == {"star"}            \* the emoji admins configure
Channels == {"A", "B"}             \* text channels usable as starboard channel
MsgIds == 1..MaxMsgs
Handlers == {"h1", "h2"}           \* coroutines that may be in flight

\* "no row" of the two tables, and "no message"
NoStarboard == [starboard_channel_id |-> "none", starboard_emoji |-> "none", starboard_threshold |-> 0]
NoLink == [starboard_message_id |-> 0, star_count |-> 0]
None == 0

VARIABLES
  starboard,       \* Starboard table row of the guild (StarboardController)
  link,            \* StarboardMessage table row of the original message
  highlight,       \* message id -> "unsent" | channel it is live in | "gone"
  reactors,        \* users whose starboard_emoji reaction is on the original message
  original_live,   \* the original message still exists
  hs,              \* per coroutine: position, payload and locals
  moved            \* history: starboard messages left behind by a change of channel

vars == <<starboard, link, highlight, reactors, original_live, hs, moved>>

\* ------------------------------------------------------------ handler state
\* pc: the await the coroutine stands at; ret: the source line at which it ended.
\* kind, emoji, bot, guild, text_channel: the event and its payload.
\* starboard: the listener's configuration row (lines 265, 299, 344);
\* configured: the row create_or_update_starboard_message read is there (line 219).
\* reaction_count, starboard_channel, starboard_message: the locals of these names.
\* ops: the sends, edits, deletes and row writes this coroutine has made.
\* History, for the properties only: counted (the threshold test was reached),
\* qualifying (reaction.count less the author's own reaction), old and stale (the
\* row's starboard message when the event was dispatched, and whether it was gone).
Idle ==
  [pc |-> "idle", ret |-> 0, kind |-> "add", emoji |-> "star", bot |-> FALSE,
   guild |-> TRUE, text_channel |-> TRUE, starboard |-> NoStarboard,
   configured |-> FALSE, counted |-> FALSE, reaction_count |-> 0, qualifying |-> 0,
   starboard_channel |-> "none", starboard_message |-> None, ops |-> <<>>,
   old |-> None, stale |-> FALSE]

\* The payloads events are dispatched with: a guild event in a text channel with
\* either emoji from a member or a bot, an event outside a guild, and an event
\* whose channel is no text channel.
Payloads ==
  [emoji : Emojis, bot : BOOLEAN, guild : {TRUE}, text_channel : {TRUE}]
    \cup {[emoji |-> "star", bot |-> FALSE, guild |-> FALSE, text_channel |-> TRUE],
          [emoji |-> "star", bot |-> FALSE, guild |-> TRUE, text_channel |-> FALSE]}

\* A listener called with payload p, before its first statement.
Called(kind, p) ==
  [Idle EXCEPT !.kind = kind, !.emoji = p.emoji, !.bot = p.bot, !.guild = p.guild,
               !.text_channel = p.text_channel,
               !.old = link.starboard_message_id,
               !.stale = (link # NoLink /\ highlight[link.starboard_message_id] \notin Channels)]

Free(h) == hs[h].pc = "idle"

\* The coroutine is at its return (or at the raise that leaves it).
Ended(h) == hs[h].pc \in {"done", "raised"}

\* A coroutine's last step and its return to the event loop are one synchronous
\* run: nothing else is scheduled while a coroutine is returning.
Returning == \E h \in Handlers : Ended(h)

\* payload.message_author_id: the gateway sends it with MESSAGE_REACTION_ADD only;
\* discord.py leaves it None for every other event type.
message_author_id(kind) == IF kind = "add" THEN Author ELSE NoUser

\* starboard_channel.fetch_message(id): the message, or NotFound.
Live(channel, id) == id \in MsgIds /\ highlight[id] = channel

Unsent == {m \in MsgIds : highlight[m] = "unsent"}
NextId == CHOOSE m \in Unsent : \A n \in Unsent : m <= n

Op(name, id, count) == [op |-> name, id |-> id, count |-> count]

\* -------------------------------------------------------------------- init
Init ==
  /\ starboard = NoStarboard
  /\ link = NoLink
  /\ highlight = [m \in MsgIds |-> "unsent"]
  /\ reactors = {}
  /\ original_live = TRUE
  /\ hs = [h \in Handlers |-> Idle]
  /\ moved = {}

\* ------------------------------------------------------- the outside world
\* starboard setup <channel> <emoji> <threshold>
\* (history: a live starboard message that the row names is left behind when
\* the channel is set to another one)
setup_starboard(channel, emoji, threshold) ==
  /\ ~Returning
  /\ threshold >= 1
  /\ starboard' = [starboard_channel_id |-> channel, starboard_emoji |-> emoji,
                   starboard_threshold |-> threshold]
  /\ moved' = IF Live(starboard.starboard_channel_id, link.starboard_message_id)
                   /\ channel # starboard.starboard_channel_id
                 THEN moved \cup {link.starboard_message_id} ELSE moved
  /\ UNCHANGED <<link, highlight, reactors, original_live, hs>>

\* starboard remove
remove_starboard ==
  /\ ~Returning
  /\ starboard # NoStarboard
  /\ starboard' = NoStarboard
  /\ UNCHANGED <<link, highlight, reactors, original_live, hs, moved>>

\* a user puts the starboard emoji on the original message, or takes it off
UserReacts(u) ==
  /\ ~Returning
  /\ original_live
  /\ u \notin reactors
  /\ reactors' = reactors \cup {u}
  /\ UNCHANGED <<starboard, link, highlight, original_live, hs, moved>>

UserUnreacts(u) ==
  /\ ~Returning
  /\ u \in reactors
  /\ reactors' = reactors \ {u}
  /\ UNCHANGED <<starboard, link, highlight, original_live, hs, moved>>

\* a moderator strips every reaction
ReactionsCleared ==
  /\ ~Returning
  /\ reactors # {}
  /\ reactors' = {}
  /\ UNCHANGED <<starboard, link, highlight, original_live, hs, moved>>

\* a moderator deletes a starboard message by hand (out of band)
DeleteHighlight(m) ==
  /\ ~Returning
  /\ highlight[m] \in Channels
  /\ highlight' = [highlight EXCEPT ![m] = "gone"]
  /\ UNCHANGED <<starboard, link, reactors, original_live, hs, moved>>

\* the original message is deleted
DeleteOriginal ==
  /\ ~Returning
  /\ original_live
  /\ original_live' = FALSE
  /\ reactors' = {}
  /\ UNCHANGED <<starboard, link, highlight, hs, moved>>

\* ------------------------------------------------------------ the listeners
Set(h, r) == hs' = [hs EXCEPT ![h] = r]

Done(r, line) == [r EXCEPT !.pc = "done", !.ret = line]

\* History for the properties: the qualifying count of the specification, which
\* is reaction.count less one when the author is in the roster.
QualifyingCount(raw, roster) == raw - (IF Author \in roster THEN 1 ELSE 0)

\* AddDecide with the threshold test off by one (> for >=)
AddDecide_Strict(r) ==
  IF r.reaction_count > r.starboard.starboard_threshold
    THEN [r EXCEPT !.counted = TRUE, !.pc = "u_config",
                   !.starboard_channel = r.starboard.starboard_channel_id]
    ELSE Done([r EXCEPT !.counted = TRUE], 283)

\* AddDecide that demotes when the count is below the threshold, as the remove listener does
AddDecide_Demotes(r) ==
  IF r.reaction_count < r.starboard.starboard_threshold
    THEN [r EXCEPT !.counted = TRUE, !.pc = "d_link",
                   !.starboard_channel = r.starboard.starboard_channel_id]
    ELSE [r EXCEPT !.counted = TRUE, !.pc = "u_config",
                   !.starboard_channel = r.starboard.starboard_channel_id]

\* lines 283-288: the add listener's threshold test, after the count
AddDecide(r) ==
  IF r.reaction_count >= r.starboard.starboard_threshold
    THEN [r EXCEPT !.counted = TRUE, !.pc = "u_config",
                   !.starboard_channel = r.starboard.starboard_channel_id]
    ELSE Done([r EXCEPT !.counted = TRUE], 283)

\* lines 317-326: the remove listener's threshold test, after the count
RemoveDecide(r) ==
  IF r.reaction_count < r.starboard.starboard_threshold
    THEN [r EXCEPT !.counted = TRUE, !.pc = "d_link",
                   !.starboard_channel = r.starboard.starboard_channel_id]
    ELSE [r EXCEPT !.counted = TRUE, !.pc = "u_config",
                   !.starboard_channel = r.starboard.starboard_channel_id]

Decide(r) == IF r.kind = "add" THEN AddDecide(r) ELSE RemoveDecide(r)

\* the except clause that ends the listener: lines 290, 328, 357
Caught(kind) == IF kind = "add" THEN 291 ELSE IF kind = "remove" THEN 329 ELSE 358

\* the end of the listener when get_existing_starboard_message gave None,
\* and after the delete: lines 323-324, 354-355
NoneFound(kind) == IF kind = "remove" THEN 323 ELSE 354
Deleted(kind) == IF kind = "remove" THEN 324 ELSE 355

\* add_called without the test of payload.member.bot
add_called_NoBotTest(h, p) ==
  /\ ~Returning
  /\ Free(h)
  /\ LET r == Called("add", p) IN
     Set(h, IF ~p.guild THEN Done(r, 263)
            ELSE IF starboard = NoStarboard \/ p.emoji # starboard.starboard_emoji
              THEN Done([r EXCEPT !.starboard = starboard], 267)
            ELSE IF ~p.text_channel
              THEN [r EXCEPT !.starboard = starboard, !.pc = "raised", !.ret = 270]
            ELSE [r EXCEPT !.starboard = starboard, !.pc = "fetch_message"])
  /\ UNCHANGED <<starboard, link, highlight, reactors, original_live, moved>>

\* lines 262-270: on_raw_reaction_add is dispatched; the guards, the
\* configuration read and the channel assertion.  payload.member is there
\* exactly when the event comes from a guild.
add_called(h, p) ==
  /\ ~Returning
  /\ Free(h)
  /\ LET r == Called("add", p) IN
     Set(h, IF ~p.guild \/ p.bot THEN Done(r, 263)
            ELSE IF starboard = NoStarboard \/ p.emoji # starboard.starboard_emoji
              THEN Done([r EXCEPT !.starboard = starboard], 267)
            ELSE IF ~p.text_channel
              THEN [r EXCEPT !.starboard = starboard, !.pc = "raised", !.ret = 270]
            ELSE [r EXCEPT !.starboard = starboard, !.pc = "fetch_message"])
  /\ UNCHANGED <<starboard, link, highlight, reactors, original_live, moved>>

\* lines 296-304: on_raw_reaction_remove is dispatched (no member, no bot test)
remove_called(h, p) ==
  /\ ~Returning
  /\ Free(h)
  /\ LET r == Called("remove", p) IN
     Set(h, IF ~p.guild THEN Done(r, 297)
            ELSE IF starboard = NoStarboard \/ p.emoji # starboard.starboard_emoji
              THEN Done([r EXCEPT !.starboard = starboard], 301)
            ELSE IF ~p.text_channel
              THEN [r EXCEPT !.starboard = starboard, !.pc = "raised", !.ret = 304]
            ELSE [r EXCEPT !.starboard = starboard, !.pc = "fetch_message"])
  /\ UNCHANGED <<starboard, link, highlight, reactors, original_live, moved>>

\* fetch_message that takes a failed fetch for a count of 0
fetch_message_Zero(h) ==
  /\ ~Returning
  /\ hs[h].pc = "fetch_message"
  /\ LET r == hs[h]
         n == Cardinality(reactors) IN
     Set(h, IF ~original_live \/ n = 0
              THEN Decide([r EXCEPT !.reaction_count = 0, !.qualifying = 0])
            ELSE [r EXCEPT !.reaction_count = n, !.pc = "users"])
  /\ UNCHANGED <<starboard, link, highlight, reactors, original_live, moved>>

\* lines 273-276 and 307-310: channel.fetch_message, then the reaction and its count
fetch_message(h) ==
  /\ ~Returning
  /\ hs[h].pc = "fetch_message"
  /\ LET r == hs[h]
         n == Cardinality(reactors) IN
     Set(h, IF ~original_live THEN Done(r, Caught(r.kind))
            ELSE IF n = 0 THEN Decide([r EXCEPT !.reaction_count = 0, !.qualifying = 0])
            ELSE [r EXCEPT !.reaction_count = n, !.pc = "users"])
  /\ UNCHANGED <<starboard, link, highlight, reactors, original_live, moved>>

\* lines 278-281 and 312-315: reaction.users(), one decrement per user whose id
\* is payload.message_author_id
reaction_users(h) ==
  /\ ~Returning
  /\ hs[h].pc = "users"
  /\ LET r == hs[h]
         hits == {u \in reactors : u = message_author_id(r.kind)} IN
     Set(h, IF ~original_live THEN Done(r, Caught(r.kind))
            ELSE Decide([r EXCEPT !.reaction_count = r.reaction_count - Cardinality(hits),
                                  !.qualifying = QualifyingCount(r.reaction_count, reactors)]))
  /\ UNCHANGED <<starboard, link, highlight, reactors, original_live, moved>>

\* lines 334-342: on_raw_reaction_clear is dispatched; the guard, the channel
\* assertion (inside the try) and the fetch of the original message
clear_called(h, p) ==
  /\ ~Returning
  /\ Free(h)
  /\ LET r == Called("clear", p) IN
     Set(h, IF ~p.guild THEN Done(r, 335)
            ELSE IF ~p.text_channel \/ ~original_live THEN Done(r, 358)
            ELSE [r EXCEPT !.pc = "c_config"])
  /\ UNCHANGED <<starboard, link, highlight, reactors, original_live, moved>>

\* clear_config with a threshold test before the demotion
clear_config_Threshold(h) ==
  /\ ~Returning
  /\ hs[h].pc = "c_config"
  /\ LET r == hs[h] IN
     Set(h, IF starboard = NoStarboard THEN Done(r, 347)
            ELSE IF Cardinality(reactors \ {Author}) >= starboard.starboard_threshold
              THEN Done([r EXCEPT !.starboard = starboard], 354)
            ELSE [r EXCEPT !.starboard = starboard, !.pc = "d_link",
                           !.starboard_channel = starboard.starboard_channel_id])
  /\ UNCHANGED <<starboard, link, highlight, reactors, original_live, moved>>

\* lines 344-351: the clear listener reads the configuration
clear_config(h) ==
  /\ ~Returning
  /\ hs[h].pc = "c_config"
  /\ LET r == hs[h] IN
     Set(h, IF starboard = NoStarboard THEN Done(r, 347)
            ELSE [r EXCEPT !.starboard = starboard, !.pc = "d_link",
                           !.starboard_channel = starboard.starboard_channel_id])
  /\ UNCHANGED <<starboard, link, highlight, reactors, original_live, moved>>

\* get_existing_starboard_message returns None to its caller, which sends
\* (line 243) or, in the remove and clear listeners, ends (lines 323, 354)
Resume(r, at) == IF at = "done" THEN Done(r, NoneFound(r.kind)) ELSE [r EXCEPT !.pc = at]

\* get_link that finds no row
get_link_Absent(h, at, found, absent) ==
  /\ ~Returning
  /\ hs[h].pc = at
  /\ Set(h, Resume([hs[h] EXCEPT !.starboard_message = None], absent))
  /\ UNCHANGED <<starboard, link, highlight, reactors, original_live, moved>>

\* line 179: get_starboard_message_by_id; with no row the result is None
\* (found: where the caller goes with a row, absent: where it goes with None)
get_link(h, at, found, absent) ==
  /\ ~Returning
  /\ hs[h].pc = at
  /\ LET r == hs[h] IN
     Set(h, IF link = NoLink THEN Resume([r EXCEPT !.starboard_message = None], absent)
            ELSE [r EXCEPT !.starboard_message = link.starboard_message_id, !.pc = found])
  /\ UNCHANGED <<starboard, link, highlight, reactors, original_live, moved>>

\* fetch_starboard_message that never finds the message
fetch_starboard_message_Never(h, at, found, absent) ==
  /\ ~Returning
  /\ hs[h].pc = at
  /\ Set(h, Resume([hs[h] EXCEPT !.starboard_message = None], absent))
  /\ UNCHANGED <<starboard, link, highlight, reactors, original_live, moved>>

\* fetch_starboard_message whose NotFound is not caught at line 190 and ends the caller
fetch_starboard_message_Raises(h, at, found, absent) ==
  /\ ~Returning
  /\ hs[h].pc = at
  /\ LET r == hs[h] IN
     Set(h, IF Live(r.starboard_channel, r.starboard_message) THEN [r EXCEPT !.pc = found]
            ELSE Done(r, IF absent = "done" THEN Caught(r.kind) ELSE 257))
  /\ UNCHANGED <<starboard, link, highlight, reactors, original_live, moved>>

\* fetch_starboard_message that finds the message in whatever channel it is
fetch_starboard_message_AnyChannel(h, at, found, absent) ==
  /\ ~Returning
  /\ hs[h].pc = at
  /\ LET r == hs[h] IN
     Set(h, IF \E c \in Channels : Live(c, r.starboard_message) THEN [r EXCEPT !.pc = found]
            ELSE Resume([r EXCEPT !.starboard_message = None], absent))
  /\ UNCHANGED <<starboard, link, highlight, reactors, original_live, moved>>

\* lines 185-193: starboard_channel.fetch_message; NotFound is caught, None returned
fetch_starboard_message(h, at, found, absent) ==
  /\ ~Returning
  /\ hs[h].pc = at
  /\ LET r == hs[h] IN
     Set(h, IF Live(r.starboard_channel, r.starboard_message) THEN [r EXCEPT !.pc = found]
            ELSE Resume([r EXCEPT !.starboard_message = None], absent))
  /\ UNCHANGED <<starboard, link, highlight, reactors, original_live, moved>>

\* upsert_config without the return of line 221
upsert_config_Unchecked(h) ==
  /\ ~Returning
  /\ hs[h].pc = "u_config"
  /\ Set(h, [hs[h] EXCEPT !.configured = (starboard # NoStarboard), !.pc = "u_link"])
  /\ UNCHANGED <<starboard, link, highlight, reactors, original_live, moved>>

\* lines 219-236: create_or_update_starboard_message reads the configuration again
upsert_config(h) ==
  /\ ~Returning
  /\ hs[h].pc = "u_config"
  /\ Set(h, IF starboard = NoStarboard THEN Done(hs[h], 221)
            ELSE [hs[h] EXCEPT !.configured = TRUE, !.pc = "u_link"])
  /\ UNCHANGED <<starboard, link, highlight, reactors, original_live, moved>>

\* line 241: starboard_message.edit; NotFound ends the upsert (line 256)
upsert_edit(h) ==
  /\ ~Returning
  /\ hs[h].pc = "u_edit"
  /\ LET r == hs[h] IN
     Set(h, IF Live(r.starboard_channel, r.starboard_message)
              THEN [r EXCEPT !.pc = "u_put",
                             !.ops = Append(r.ops, Op("edit", r.starboard_message, r.reaction_count))]
              ELSE Done(r, 257))
  /\ UNCHANGED <<starboard, link, highlight, reactors, original_live, moved>>

\* line 243: starboard_channel.send
upsert_send(h) ==
  /\ ~Returning
  /\ hs[h].pc = "u_send"
  /\ Unsent # {}
  /\ LET r == hs[h] IN
     /\ highlight' = [highlight EXCEPT ![NextId] = r.starboard_channel]
     /\ Set(h, [r EXCEPT !.pc = "u_put", !.starboard_message = NextId,
                         !.ops = Append(r.ops, Op("send", NextId, r.reaction_count))])
  /\ UNCHANGED <<starboard, link, reactors, original_live, moved>>

\* upsert_put that leaves an existing row's starboard_message_id as it is
upsert_put_KeepsId(h) ==
  /\ ~Returning
  /\ hs[h].pc = "u_put"
  /\ LET r == hs[h] IN
     /\ link' = [starboard_message_id |-> IF link = NoLink THEN r.starboard_message
                                          ELSE link.starboard_message_id,
                 star_count |-> r.reaction_count]
     /\ Set(h, Done([r EXCEPT !.ops = Append(r.ops, Op("put", r.starboard_message, r.reaction_count))],
                     254))
  /\ UNCHANGED <<starboard, highlight, reactors, original_live, moved>>

\* lines 245-254: the row of the original message is written
upsert_put(h) ==
  /\ ~Returning
  /\ hs[h].pc = "u_put"
  /\ LET r == hs[h] IN
     /\ link' = [starboard_message_id |-> r.starboard_message, star_count |-> r.reaction_count]
     /\ Set(h, Done([r EXCEPT !.ops = Append(r.ops, Op("put", r.starboard_message, r.reaction_count))],
                     254))
  /\ UNCHANGED <<starboard, highlight, reactors, original_live, moved>>

\* delete_starboard_message that also removes the row of the original message
delete_starboard_message_DropsLink(h) ==
  /\ ~Returning
  /\ hs[h].pc = "d_delete"
  /\ LET r == hs[h] IN
     IF Live(r.starboard_channel, r.starboard_message)
       THEN /\ highlight' = [highlight EXCEPT ![r.starboard_message] = "gone"]
            /\ link' = NoLink
            /\ Set(h, Done([r EXCEPT !.ops = Append(r.ops, Op("delete", r.starboard_message, 0))],
                            Deleted(r.kind)))
       ELSE /\ Set(h, Done(r, Caught(r.kind)))
            /\ UNCHANGED <<highlight, link>>
  /\ UNCHANGED <<starboard, reactors, original_live, moved>>

\* lines 324 and 355: existing_starboard_message.delete; NotFound is caught
\* by the listener (lines 328, 357)
delete_starboard_message(h) ==
  /\ ~Returning
  /\ hs[h].pc = "d_delete"
  /\ LET r == hs[h] IN
     IF Live(r.starboard_channel, r.starboard_message)
       THEN /\ highlight' = [highlight EXCEPT ![r.starboard_message] = "gone"]
            /\ Set(h, Done([r EXCEPT !.ops = Append(r.ops, Op("delete", r.starboard_message, 0))],
                            Deleted(r.kind)))
       ELSE /\ Set(h, Done(r, Caught(r.kind)))
            /\ UNCHANGED highlight
  /\ UNCHANGED <<starboard, link, reactors, original_live, moved>>

\* lines 160-193, as called from create_or_update_starboard_message (line 238)
\* and from the remove and clear listeners (lines 322, 353)
get_existing_starboard_message(h) ==
  \/ get_link(h, "u_link", "u_fetch", "u_send")
  \/ fetch_starboard_message(h, "u_fetch", "u_edit", "u_send")
  \/ get_link(h, "d_link", "d_fetch", "done")
  \/ fetch_starboard_message(h, "d_fetch", "d_delete", "done")

\* lines 195-257
create_or_update_starboard_message(h) ==
  \/ upsert_config(h)
  \/ upsert_edit(h)
  \/ upsert_send(h)
  \/ upsert_put(h)

\* lines 259-291
starboard_on_reaction_add(h) ==
  \/ \E p \in Payloads : add_called(h, p)

\* lines 293-329
starboard_on_reaction_remove(h) ==
  \/ \E p \in Payloads : remove_called(h, p)
  \/ delete_starboard_message(h)

\* lines 331-358
starboard_on_reaction_clear(h) ==
  \/ \E p \in Payloads : clear_called(h, p)
  \/ clear_config(h)

\* the count, lines 273-281 and 307-315, is the same in both listeners
count_reactions(h) ==
  \/ fetch_message(h)
  \/ reaction_users(h)

Handler(h) ==
  \/ starboard_on_reaction_add(h)
  \/ count_reactions(h)
  \/ starboard_on_reaction_remove(h)
  \/ starboard_on_reaction_clear(h)
  \/ create_or_update_starboard_message(h)
  \/ get_existing_starboard_message(h)

World(CS) ==
  \/ \E c \in CS, e \in SetupEmojis, t \in Thresholds : setup_starboard(c, e, t)
  \/ remove_starboard
  \/ \E u \in Users : UserReacts(u)
  \/ \E u \in Users : UserUnreacts(u)
  \/ ReactionsCleared
  \/ \E m \in MsgIds : DeleteHighlight(m)
  \/ DeleteOriginal

\* The coroutine returns to the event loop.
Return(h) ==
  /\ Ended(h)
  /\ hs' = [hs EXCEPT ![h] = Idle]
  /\ UNCHANGED <<starboard, link, highlight, reactors, original_live, moved>>

\* Events are handled one at a time: a listener runs to its end before the next
\* event is dispatched.  The outside world acts at any await.
Next ==
  \/ Return("h1")
  \/ Handler("h1")
  \/ World({"A"})

Spec == Init /\ [][Next]_vars

\* ------------------------------------------------- external calls that fail
\* A call of the Discord API or of the database fails though its target is
\* there (an HTTPException, a lost connection), at any await.

\* lines 265, 299: the configuration read of the add and remove listeners
\* stands before the try; its error leaves the listener
get_starboard_fails(h, kind) ==
  /\ ~Returning
  /\ Free(h)
  /\ kind \in {"add", "remove"}
  /\ LET p == [emoji |-> "star", bot |-> FALSE, guild |-> TRUE, text_channel |-> TRUE] IN
     Set(h, [Called(kind, p) EXCEPT !.pc = "raised",
                                    !.ret = IF kind = "add" THEN 265 ELSE 299])
  /\ UNCHANGED <<starboard, link, highlight, reactors, original_live, moved>>

\* lines 273-279, 307-313: channel.fetch_message or reaction.users() raises;
\* the listener's except clause ends it (lines 290, 328)
fetch_message_fails(h) ==
  /\ ~Returning
  /\ hs[h].pc \in {"fetch_message", "users"}
  /\ Set(h, Done(hs[h], Caught(hs[h].kind)))
  /\ UNCHANGED <<starboard, link, highlight, reactors, original_live, moved>>

\* line 344: the configuration read of the clear listener raises, inside its try
clear_config_fails(h) ==
  /\ ~Returning
  /\ hs[h].pc = "c_config"
  /\ Set(h, Done(hs[h], 358))
  /\ UNCHANGED <<starboard, link, highlight, reactors, original_live, moved>>

\* lines 179, 185: the row read or the fetch of the starboard message raises;
\* line 190 catches it and get_existing_starboard_message returns None
get_existing_fails(h) ==
  /\ ~Returning
  /\ hs[h].pc \in {"u_link", "u_fetch", "d_link", "d_fetch"}
  /\ LET r == [hs[h] EXCEPT !.starboard_message = None] IN
     Set(h, Resume(r, IF hs[h].pc \in {"u_link", "u_fetch"} THEN "u_send" ELSE "done"))
  /\ UNCHANGED <<starboard, link, highlight, reactors, original_live, moved>>

\* upsert_fails that still goes on to write the row after a failed send or edit
upsert_fails_WritesRow(h) ==
  /\ ~Returning
  /\ hs[h].pc \in {"u_config", "u_edit", "u_send"}
  /\ Set(h, IF hs[h].pc = "u_config" THEN Done(hs[h], 257)
            ELSE [hs[h] EXCEPT !.pc = "u_put"])
  /\ UNCHANGED <<starboard, link, highlight, reactors, original_live, moved>>

\* lines 219, 241, 243: the configuration read, the edit or the send raises;
\* line 256 catches it and the upsert ends, nothing sent, no row written
upsert_fails(h) ==
  /\ ~Returning
  /\ hs[h].pc \in {"u_config", "u_edit", "u_send"}
  /\ Set(h, Done(hs[h], 257))
  /\ UNCHANGED <<starboard, link, highlight, reactors, original_live, moved>>

\* upsert_put_fails that deletes the message it has just sent
upsert_put_fails_RollsBack(h) ==
  /\ ~Returning
  /\ hs[h].pc = "u_put"
  /\ highlight' = IF hs[h].ops # <<>> /\ hs[h].ops[Len(hs[h].ops)].op = "send"
                    THEN [highlight EXCEPT ![hs[h].starboard_message] = "gone"]
                  ELSE highlight
  /\ Set(h, Done(hs[h], 257))
  /\ UNCHANGED <<starboard, link, reactors, original_live, moved>>

\* lines 245-254: the row write raises after the send or the edit; line 256
\* catches it
upsert_put_fails(h) ==
  /\ ~Returning
  /\ hs[h].pc = "u_put"
  /\ Set(h, Done(hs[h], 257))
  /\ UNCHANGED <<starboard, link, highlight, reactors, original_live, moved>>

\* lines 324, 355: the delete raises; the listener's except clause ends it
delete_fails(h) ==
  /\ ~Returning
  /\ hs[h].pc = "d_delete"
  /\ Set(h, Done(hs[h], Caught(hs[h].kind)))
  /\ UNCHANGED <<starboard, link, highlight, reactors, original_live, moved>>

Fault(h) ==
  \/ \E kind \in {"add", "remove"} : get_starboard_fails(h, kind)
  \/ fetch_message_fails(h)
  \/ clear_config_fails(h)
  \/ get_existing_fails(h)
  \/ upsert_fails(h)
  \/ upsert_put_fails(h)
  \/ delete_fails(h)

\* One user, not the author, reacts and takes the reaction back.
RaceUsers == {1}

\* Events handled one at a time, any external call may fail.
NextFault ==
  \/ Return("h1")
  \/ Handler("h1")
  \/ Fault("h1")
  \/ \E e \in SetupEmojis, t \in Thresholds : setup_starboard("A", e, t)
  \/ remove_starboard
  \/ \E u \in RaceUsers : UserReacts(u)
  \/ \E u \in RaceUsers : UserUnreacts(u)
  \/ \E m \in MsgIds : DeleteHighlight(m)
  \/ DeleteOriginal

SpecFault == Init /\ [][NextFault]_vars

\* Two listeners interleave at their awaits.  The guild has its starboard
\* configured.

InitRace ==
  /\ \E t \in Thresholds :
       starboard = [starboard_channel_id |-> "A", starboard_emoji |-> "star",
                    starboard_threshold |-> t]
  /\ link = NoLink
  /\ highlight = [m \in MsgIds |-> "unsent"]
  /\ reactors = {}
  /\ original_live = TRUE
  /\ hs = [h \in Handlers |-> Idle]
  /\ moved = {}

NextRace ==
  \/ \E h \in Handlers : Return(h)
  \/ \E h \in Handlers : Handler(h)
  \/ \E u \in RaceUsers : UserReacts(u)
  \/ \E u \in RaceUsers : UserUnreacts(u)

SpecRace == InitRace /\ [][NextRace]_vars

\* Two listeners interleave and any external call may fail.
NextRaceFault ==
  \/ NextRace
  \/ \E h \in Handlers : Fault(h)

SpecRaceFault == InitRace /\ [][NextRaceFault]_vars

\* Events handled one at a time while an administrator moves the starboard
\* between two channels.
NextMove ==
  \/ Return("h1")
  \/ Handler("h1")
  \/ \E c \in Channels, e \in SetupEmojis, t \in Thresholds : setup_starboard(c, e, t)
  \/ \E u \in RaceUsers : UserReacts(u)
  \/ \E u \in RaceUsers : UserUnreacts(u)
  \/ \E m \in MsgIds : DeleteHighlight(m)

SpecMove == Init /\ [][NextMove]_vars

\* ------------------------------------------------------------- properties
LiveIds == {m \in MsgIds : highlight[m] \in Channels}
Threshold(h) == hs[h].starboard.starboard_threshold
Sent(h) == \E i \in DOMAIN hs[h].ops : hs[h].ops[i].op = "send"
Put(h) == \E i \in DOMAIN hs[h].ops : hs[h].ops[i].op = "put"
DeletedBy(h) == \E i \in DOMAIN hs[h].ops : hs[h].ops[i].op = "delete"
Returned(h) == hs[h].pc = "done"

\* C1, threshold crossing.  When an add listener returns having counted, its
\* count is the qualifying count: with the
\* count below the threshold it sent nothing and wrote no row; with the count at
\* or above it, for a message that had no row and a configuration still there at
\* line 219, it sent exactly one starboard message and wrote exactly one row,
\* which names that message and that count.
C1_ThresholdCrossing ==
  \A h \in Handlers :
    (Returned(h) /\ hs[h].kind = "add" /\ hs[h].counted) =>
      /\ hs[h].reaction_count = hs[h].qualifying
      /\ hs[h].reaction_count < Threshold(h) => hs[h].ops = <<>>
      /\ (hs[h].reaction_count >= Threshold(h) /\ hs[h].old = None /\ hs[h].ret # 221) =>
           /\ Len(hs[h].ops) = 2
           /\ hs[h].ops[1].op = "send"
           /\ hs[h].ops[2] = Op("put", hs[h].ops[1].id, hs[h].reaction_count)
           /\ link = [starboard_message_id |-> hs[h].ops[1].id,
                      star_count |-> hs[h].reaction_count]

\* the add event that reaches a threshold of two, for a message without a row
C1_Witness ==
  \E h \in Handlers :
    /\ Returned(h) /\ hs[h].kind = "add" /\ hs[h].old = None
    /\ Threshold(h) = 2 /\ hs[h].reaction_count = 2
    /\ Sent(h) /\ Put(h)

\* C2, self-reaction exclusion.  The count a listener compares with the threshold
\* is the number of reactors less one when the author is among them, in the add
\* listener and in the remove listener.
C2_SelfReactionExcluded ==
  \A h \in Handlers : hs[h].counted => hs[h].reaction_count = hs[h].qualifying

\* C3, demotion.  When a remove listener returns, for a message whose row named
\* a live starboard message as the event was dispatched, and the qualifying
\* count at its recount is below the threshold, that starboard message is no
\* longer in the starboard channel (the guild being configured throughout).
C3_DemotionBelowThreshold ==
  \A h \in Handlers :
    (Returned(h) /\ hs[h].kind = "remove" /\ hs[h].counted
       /\ hs[h].qualifying < Threshold(h) /\ starboard # NoStarboard
       /\ hs[h].old # None /\ ~hs[h].stale) =>
      highlight[hs[h].old] \notin Channels

\* C4 as stated: once a listener has deleted the starboard message, the store
\* holds no row for the original message.
C4_LinkDropped ==
  \A h \in Handlers : (Returned(h) /\ DeletedBy(h)) => link = NoLink

\* C4, amended.  Once a listener has deleted the starboard message, the store
\* still holds the row, and the row names the message that was deleted.
C4_LinkKeptStale ==
  \A h \in Handlers :
    (Returned(h) /\ DeletedBy(h)) =>
      /\ link # NoLink
      /\ link.starboard_message_id = hs[h].ops[1].id
      /\ highlight[link.starboard_message_id] = "gone"

\* a remove listener has demoted a message whose row counted two stars
C4_Witness ==
  \E h \in Handlers :
    /\ Returned(h) /\ hs[h].kind = "remove" /\ DeletedBy(h)
    /\ link.star_count = 2

C6_IdempotentUpsert ==
  \A h \in Handlers :
    (Returned(h) /\ hs[h].ret = 254) =>
      /\ LiveIds \subseteq {link.starboard_message_id}
      /\ Len(hs[h].ops) = 2
      /\ (hs[h].old # None /\ highlight[hs[h].old] \in Channels) =>
           (hs[h].ops[1].op = "edit" /\ hs[h].ops[1].id = hs[h].old)

\* the second upsert: it edited the message the first one sent, which is the
\* only live one
C6_Witness ==
  \E h \in Handlers :
    /\ Returned(h) /\ hs[h].ret = 254
    /\ hs[h].ops[1].op = "edit" /\ hs[h].old # None
    /\ LiveIds = {hs[h].old}

\* C7, round trip.  When an upsert has written its row, the row read back names
\* the message the upsert sent or edited and the count the upsert was given.
C7_RoundTrip ==
  \A h \in Handlers :
    (Returned(h) /\ hs[h].ret = 254) =>
      /\ hs[h].ops[1].op \in {"send", "edit"}
      /\ link = [starboard_message_id |-> hs[h].ops[1].id,
                 star_count |-> hs[h].reaction_count]

\* an upsert replaced a row by one with another message and another count
C7_Witness ==
  \E h \in Handlers :
    /\ Returned(h) /\ hs[h].ret = 254
    /\ hs[h].old # None /\ link.starboard_message_id # hs[h].old
    /\ link.star_count = NumUsers

\* C8, self-healing.  When the row named a starboard message that was already
\* gone as the event was dispatched, a listener that counts at least the
\* threshold (and still finds the configuration at line 219) sends a new
\* starboard message and writes its id over the row.
C8_SelfHealing ==
  \A h \in Handlers :
    (Returned(h) /\ hs[h].counted /\ hs[h].reaction_count >= Threshold(h)
       /\ hs[h].stale /\ hs[h].ret # 221) =>
      /\ Len(hs[h].ops) = 2
      /\ hs[h].ops[1].op = "send"
      /\ hs[h].ops[1].id # hs[h].old
      /\ link.starboard_message_id = hs[h].ops[1].id
      /\ hs[h].ops[2].op = "put"

\* an add listener healed a row whose starboard message a moderator had deleted
C8_Witness ==
  \E h \in Handlers :
    /\ Returned(h) /\ hs[h].kind = "add" /\ hs[h].stale
    /\ Sent(h) /\ link.starboard_message_id # hs[h].old
    /\ highlight[link.starboard_message_id] \in Channels

\* C9, unconfigured server.  A listener that found no configuration, at its own
\* read or at the read of line 219, has sent nothing, edited nothing, deleted
\* nothing and written no row; a send or a row write is made only by a listener
\* that found the configuration at both reads.
C9_UnconfiguredNoOp ==
  \A h \in Handlers :
    /\ (hs[h].starboard = NoStarboard \/ hs[h].ret = 221) => hs[h].ops = <<>>
    /\ (Sent(h) \/ Put(h)) => (hs[h].starboard # NoStarboard /\ hs[h].configured)

\* the configuration was removed between the listener's read and line 219: the
\* count had reached the threshold, and nothing was sent
C9_Witness ==
  \E h \in Handlers :
    /\ Returned(h) /\ hs[h].ret = 221
    /\ hs[h].starboard # NoStarboard /\ starboard = NoStarboard
    /\ hs[h].reaction_count >= Threshold(h)
    /\ hs[h].ops = <<>> /\ link = NoLink

\* C10 as stated: an add or remove event whose emoji is not the configured one,
\* or whose reacting user is a bot, sends, edits and deletes nothing and writes
\* no row (stated here for the listeners whose count is the qualifying count).
C10_CheapExit ==
  \A h \in Handlers :
    (hs[h].kind \in {"add", "remove"} /\ hs[h].pc # "idle"
       /\ hs[h].reaction_count = hs[h].qualifying
       /\ (hs[h].emoji # hs[h].starboard.starboard_emoji \/ hs[h].bot)) =>
      hs[h].ops = <<>>

\* C10, amended.  The same for an add event; a remove event is ignored when its
\* emoji is not the configured one.
C10_CheapExitAdd ==
  \A h \in Handlers :
    (hs[h].pc # "idle"
       /\ \/ hs[h].kind = "add" /\ (hs[h].emoji # hs[h].starboard.starboard_emoji \/ hs[h].bot)
          \/ hs[h].kind = "remove" /\ hs[h].emoji # hs[h].starboard.starboard_emoji) =>
      (hs[h].pc = "done" /\ hs[h].ops = <<>>)

\* a bot added the configured emoji to a message whose count is at the
\* threshold and that has no starboard message: nothing happened
C10_Witness ==
  \E h \in Handlers :
    /\ Returned(h) /\ hs[h].kind = "add" /\ hs[h].bot /\ hs[h].emoji = "star"
    /\ starboard # NoStarboard /\ hs[h].emoji = starboard.starboard_emoji
    /\ Cardinality(reactors \ {Author}) >= starboard.starboard_threshold
    /\ link = NoLink /\ hs[h].ops = <<>>

\* C11, handler isolation.  No listener ever ends in an exception that leaves
\* it: whatever its external calls do, it returns.
C11_HandlerIsolation ==
  \A h \in Handlers : hs[h].pc # "raised"

\* C12, fetch failure.  When the fetch of the original message or of its
\* roster fails in the add or the remove listener, the listener proceeds as
\* with a count of 0: it does not raise, and the remove listener demotes a
\* message whose row names a live starboard message.
C12_FetchFailureCountsAsZero ==
  \A h \in Handlers :
    (/\ Returned(h)
     /\ hs[h].kind \in {"add", "remove"}
     /\ hs[h].ret = Caught(hs[h].kind)
     /\ ~hs[h].counted
     /\ hs[h].old # None
     /\ ~hs[h].stale)
    => /\ hs[h].kind = "remove" => highlight[hs[h].old] \notin Channels
       /\ hs[h].kind = "add" => hs[h].ops = <<>>

\* C12 as the code has it.  When the fetch of the original message or of its
\* roster fails in the add or the remove listener, the except clause ends the
\* listener there: it does not raise, it never reaches the threshold test, and
\* it sends, edits, deletes and writes nothing, so the remove listener leaves a
\* live starboard message and the row as they are.
C12_FetchFailureDropsEvent ==
  [][\A h \in Handlers :
       (/\ hs[h].pc \in {"fetch_message", "users"}
        /\ ~original_live
        /\ hs'[h] # hs[h])
       => /\ hs'[h].pc = "done"
          /\ hs'[h].ret = Caught(hs[h].kind)
          /\ ~hs'[h].counted
          /\ hs'[h].ops = <<>>
          /\ highlight' = highlight
          /\ link' = link]_vars

C12_Witness ==
  \E h \in Handlers :
    /\ Returned(h)
    /\ hs[h].kind = "remove"
    /\ hs[h].ret = 329
    /\ ~hs[h].counted
    /\ hs[h].old # None
    /\ highlight[hs[h].old] \in Channels
    /\ link.starboard_message_id = hs[h].old

\* C13, redelivery of a demotion.  A remove listener for a message whose
\* qualifying count is below the threshold, or a clear listener, that is
\* dispatched when the row names a starboard message that is already gone and
\* that gets as far as the lookup, returns at the "nothing to delete" line: no
\* exception was raised or caught, no delete was attempted, and it sent, edited
\* and wrote nothing, so the starboard messages and the row are as the first
\* delivery left them.
C13_IdempotentRedelivery ==
  \A h \in Handlers :
    (/\ Ended(h)
     /\ hs[h].stale
     /\ hs[h].starboard_channel # "none"
     /\ \/ hs[h].kind = "remove" /\ hs[h].qualifying < Threshold(h)
        \/ hs[h].kind = "clear")
    => /\ Returned(h)
       /\ hs[h].ret = NoneFound(hs[h].kind)
       /\ hs[h].ops = <<>>
       /\ link.starboard_message_id = hs[h].old

\* C16, no duplicate and no orphan.  With events handled one at a time, one
\* starboard channel and no failing call, whenever no listener is running at
\* most one starboard message is live, and a live starboard message is the one
\* the row names.
C16_NoDuplicateNoOrphan ==
  (\A h \in Handlers : Free(h))
    => /\ Cardinality(LiveIds) <= 1
       /\ \A m \in LiveIds : link # NoLink /\ link.starboard_message_id = m

\* after promotion, demotion and promotion again
C16_Witness ==
  /\ \A h \in Handlers : Free(h)
  /\ \E m, n \in MsgIds :
       /\ highlight[m] = "gone"
       /\ highlight[n] \in Channels
       /\ link.starboard_message_id = n

\* C17, an add never demotes.  An add listener never deletes a starboard
\* message; when its count is below the threshold it also edits nothing, sends
\* nothing and writes no row, whether or not the row names a live starboard
\* message.
C17_AddNeverDemotes ==
  \A h \in Handlers :
    hs[h].kind = "add"
    => /\ ~DeletedBy(h)
       /\ hs[h].pc \notin {"d_link", "d_fetch", "d_delete"}
       /\ (hs[h].counted /\ hs[h].qualifying < Threshold(h))
            => (Returned(h) /\ hs[h].ret = 283 /\ hs[h].ops = <<>>)

\* the threshold was raised above the count of a message with a live starboard message
C17_Witness ==
  \E h \in Handlers :
    /\ Returned(h)
    /\ hs[h].kind = "add"
    /\ hs[h].counted
    /\ hs[h].qualifying >= 1
    /\ hs[h].qualifying < Threshold(h)
    /\ hs[h].old # None
    /\ highlight[hs[h].old] \in Channels
    /\ link.starboard_message_id = hs[h].old

\* C18, refresh on remove.  When a remove listener returns for a message whose
\* qualifying count is at or above the threshold, whose row named a starboard
\* message at dispatch that is still live, with the configuration still there
\* at line 219, it has edited that message and nothing else, and the row names
\* the same message and the qualifying count.
C18_RefreshOnRemove ==
  \A h \in Handlers :
    (/\ Returned(h)
     /\ hs[h].kind = "remove"
     /\ hs[h].counted
     /\ hs[h].qualifying >= Threshold(h)
     /\ hs[h].old # None
     /\ highlight[hs[h].old] \in Channels
     /\ hs[h].configured)
    => /\ hs[h].ops = <<Op("edit", hs[h].old, hs[h].reaction_count),
                        Op("put", hs[h].old, hs[h].reaction_count)>>
       /\ link = [starboard_message_id |-> hs[h].old, star_count |-> hs[h].qualifying]

\* C14, the duplicate-promotion race.  Two listeners that have both sent
\* have sent two different messages, and a listener that returns from the row
\* write leaves the one row of the original message naming its own message and
\* count, whatever the other listener wrote before: the last writer's row
\* stands, and the other message is named by no row.
C14_LastWriterWins ==
  \A h, g \in Handlers :
    /\ (h # g /\ Sent(h) /\ Sent(g))
         => hs[h].starboard_message # hs[g].starboard_message
    /\ (Returned(h) /\ hs[h].ret = 254 /\ Sent(h))
         => /\ link = [starboard_message_id |-> hs[h].starboard_message,
                       star_count |-> hs[h].reaction_count]
            /\ \A m \in LiveIds \ {hs[h].starboard_message} :
                 link.starboard_message_id # m

\* both listeners were dispatched with no row, both have sent, the first has
\* written its row and returned, the second has just overwritten it: two
\* starboard messages are live and the row names the second writer's
C14_Witness ==
  \E h, g \in Handlers :
    /\ h # g
    /\ Free(g)
    /\ Returned(h)
    /\ hs[h].ret = 254
    /\ hs[h].old = None
    /\ hs[h].ops = <<Op("send", hs[h].starboard_message, hs[h].reaction_count),
                     Op("put", hs[h].starboard_message, hs[h].reaction_count)>>
    /\ Cardinality(LiveIds) = 2
    /\ link.starboard_message_id = hs[h].starboard_message

\* C15, the partial-failure window.  A step in which the row write fails after
\* the send or the edit ends the upsert at its except clause without raising,
\* and leaves every starboard message and the row as they were before the step:
\* the message just sent or edited stays, the row is the one from before the
\* upsert.
C15_PartialFailureWindow ==
  [][\A h \in Handlers :
       (hs[h].pc = "u_put" /\ hs'[h].pc # "u_put" /\ hs'[h].ret # 254)
       => /\ hs'[h].pc = "done"
          /\ hs'[h].ret = 257
          /\ hs'[h].ops = hs[h].ops
          /\ highlight' = highlight
          /\ link' = link]_vars

\* the row write failed after a send: the new message is live and the row does
\* not name it
C15_Witness ==
  \E h \in Handlers :
    /\ Returned(h)
    /\ hs[h].ret = 257
    /\ Sent(h)
    /\ highlight[hs[h].starboard_message] \in Channels
    /\ link.starboard_message_id # hs[h].starboard_message
    /\ link.starboard_message_id = hs[h].old

\* C19, link provenance.  Under any interleaving of two listeners and any
\* failing call: the row names a message that was sent; a listener stands at
\* the row write only after its send or its edit of the message it is about to
\* name has succeeded; a listener that wrote the row had sent or edited exactly
\* that message before; and a listener whose upsert failed before the send or
\* the edit wrote no row.
C19_LinkProvenance ==
  /\ link # NoLink
       => /\ link.starboard_message_id \in MsgIds
          /\ highlight[link.starboard_message_id] # "unsent"
  /\ \A h \in Handlers :
       /\ hs[h].pc = "u_put"
            => /\ hs[h].ops # <<>>
               /\ hs[h].ops[Len(hs[h].ops)].op \in {"send", "edit"}
               /\ hs[h].ops[Len(hs[h].ops)].id = hs[h].starboard_message
               /\ hs[h].starboard_message \in MsgIds
               /\ highlight[hs[h].starboard_message] # "unsent"
       /\ Put(h)
            => /\ Len(hs[h].ops) = 2
               /\ hs[h].ops[1].op \in {"send", "edit"}
               /\ hs[h].ops[2] = Op("put", hs[h].ops[1].id, hs[h].ops[1].count)
       /\ (Ended(h) /\ hs[h].ret = 257 /\ hs[h].ops = <<>>) => ~Put(h)

\* a send failed in one listener while the row, written by the other, names a
\* live message
C19_Witness ==
  \E h \in Handlers :
    /\ Returned(h)
    /\ hs[h].ret = 257
    /\ hs[h].ops = <<>>
    /\ hs[h].configured
    /\ link # NoLink
    /\ highlight[link.starboard_message_id] \in Channels

\* C20, change of the starboard channel.  Once the starboard channel was
\* changed while the row named a live starboard message, no listener ever
\* edits or deletes that message again.
C20_NeverTouchedAgain ==
  \A h \in Handlers :
    \A i \in DOMAIN hs[h].ops :
      hs[h].ops[i].op \in {"edit", "delete"} => hs[h].ops[i].id \notin moved

\* C20 as the code has it.  A listener fetches, edits, sends and deletes in
\* the channel of the configuration it read when it was dispatched (lines 265,
\* 299, 344), whatever the configuration is by then: the message it is about to
\* edit or delete, and the message it has sent, are in that channel.  So a
\* listener that read channel B leaves a starboard message in channel A alone:
\* when it demotes it finds nothing to delete, and when it promotes it sends a
\* new message in B and the row names the new message.
C20_ListenerChannel ==
  \A h \in Handlers :
    LET r == hs[h] IN
    /\ r.starboard_channel # "none" => r.starboard_channel = r.starboard.starboard_channel_id
    /\ r.pc \in {"u_edit", "d_delete"}
         => highlight[r.starboard_message] \in {r.starboard_channel, "gone"}
    /\ \A i \in DOMAIN r.ops :
         r.ops[i].op \in {"send", "edit", "delete"}
           => highlight[r.ops[i].id] \in {r.starboard_channel, "gone"}
    /\ (/\ Ended(h)
        /\ r.starboard_channel # "none"
        /\ r.old # None
        /\ highlight[r.old] \in Channels \ {r.starboard_channel})
         => /\ Returned(h)
            /\ r.ret \in {NoneFound(r.kind), 221, 254}
            /\ r.ret = NoneFound(r.kind) => r.ops = <<>>
            /\ r.ret = 254
                 => /\ r.ops = <<Op("send", r.starboard_message, r.reaction_count),
                                 Op("put", r.starboard_message, r.reaction_count)>>
                    /\ highlight[r.starboard_message] \in {r.starboard_channel, "gone"}
                    /\ link.starboard_message_id = r.starboard_message
                    /\ r.starboard_message # r.old

\* the channel was changed from A to B; the next qualifying event has sent a
\* new message in B and the row names it; the message in A is still live
C20_Witness ==
  \E h \in Handlers :
    /\ Returned(h)
    /\ hs[h].ret = 254
    /\ hs[h].starboard_channel = "B"
    /\ hs[h].old \in moved
    /\ highlight[hs[h].old] = "A"
    /\ highlight[hs[h].starboard_message] = "B"
    /\ link.starboard_message_id = hs[h].starboard_message

====
